---- MODULE Spec2Model ----
(***************************************************************************)
(* Model of the checkpointed translation pipeline of logan676/translate:   *)
(* deep_seek_translate_docx.py and google_translate.py (the two variants   *)
(* of the same pipeline), batch_translate.py (fan-out over documents) and  *)
(* the pure paginator and segmenter.                                       *)
(*                                                                         *)
(* A source document is a list of tables and a list of paragraphs.  The    *)
(* files of the working directory (the checkpoint translation_progress.json,*)
(* the working document .temp_output.docx and the final artifact) are part *)
(* of the state and survive a kill of the process.                         *)
(***************************************************************************)
EXTENDS Integers, Sequences, FiniteSets, TLC

(***************************************************************************)
(* Program constants.                                                      *)
(***************************************************************************)
SAVE_INTERVAL == 5
PAGE_BREAK_INTERVAL == 3
TABLE_BREAK_INTERVAL == 2
PAGES_PER_SEGMENT == 5
STOP_AFTER_ATTEMPT == 3
max_workers == 30

(***************************************************************************)
(* Bounds of the model.                                                    *)
(***************************************************************************)
MaxParas == 11
MaxTables == 6
MaxRuns == 2
MaxFaults == 1
MaxDocs == 3
MaxBatchSaves == 1
MaxBlocks == 3
MaxPaged == 3
MaxPage == 11

MaxArtifacts == 3

MaxSplitParas == 4

MaxSegmentPages == 2

(***************************************************************************)
(* Python dicts are functions from a set of keys; d.get(k, default) and    *)
(* d[k] = v.                                                               *)
(***************************************************************************)
Get(d, k, default) == IF k \in DOMAIN d THEN d[k] ELSE default

Put(d, k, v) == [x \in (DOMAIN d) \cup {k} |-> IF x = k THEN v ELSE d[x]]

(***************************************************************************)
(* The source document.  Paragraph i is heading-styled when i is in        *)
(* Headings and has whitespace-only text when i is in Blanks.              *)
(***************************************************************************)
Headings == {7}

Blanks == {2}

IsHeading(i) == i \in Headings

IsBlank(i) == i \in Blanks

(***************************************************************************)
(* Blocks of an output document: a paragraph written for source paragraph  *)
(* src (orig: the run holding the source text was added; trans: the run    *)
(* holding the translation: "none" when it was never added, else the text  *)
(* the gateway returned), or a page break.                                 *)
(***************************************************************************)
ParaBlock(i, orig, trans) == [kind |-> "para", src |-> i, orig |-> orig, trans |-> trans]

PageBreakBlock == [kind |-> "pagebreak", src |-> 0, orig |-> FALSE, trans |-> "none"]

(***************************************************************************)
(* Files: a JSON checkpoint, and documents.                                *)
(***************************************************************************)
DefaultWriterProgress == [processed_para |-> 0, processed_tables |-> 0]

NoJson == [exists |-> FALSE, data |-> DefaultWriterProgress]

JsonFile(d) == [exists |-> TRUE, data |-> d]

NoDoc == [exists |-> FALSE, body |-> <<>>]

DocFile(blocks) == [exists |-> TRUE, body |-> blocks]

(***************************************************************************)
(* The progress dict main() starts from: the keys differ between the two   *)
(* variants ('table' in deep_seek_translate_docx.py, 'tables' in           *)
(* google_translate.py).                                                   *)
(***************************************************************************)
TableKey(v) == IF v = "deepseek" THEN "table" ELSE "tables"

MainProgress(v, k, t) ==
    IF v = "deepseek" THEN [paragraph |-> k, table |-> t]
    ELSE [paragraph |-> k, tables |-> t]

(***************************************************************************)
(* The translator gateway.  translate_text makes the external call inside  *)
(* try/except Exception and turns a failure into the sentinel string, so   *)
(* it returns normally in both cases (raised is FALSE); google_translate's *)
(* variant returns "" for whitespace-only text without calling.  outcome   *)
(* is what the external service does with the call: "ok" or "fail".        *)
(***************************************************************************)
translate_text_propagating(v, blank, outcome) ==
    IF v = "google" /\ blank
    THEN [raised |-> FALSE, text |-> "empty", calls |-> 0]
    ELSE [raised |-> outcome # "ok",
          text |-> IF outcome = "ok" THEN "ok" ELSE "error",
          calls |-> 1]

translate_text(v, blank, outcome) ==
    IF v = "google" /\ blank
    THEN [raised |-> FALSE, text |-> "empty", calls |-> 0]
    ELSE [raised |-> FALSE,
          text |-> IF outcome = "ok" THEN "ok" ELSE "error",
          calls |-> 1]

(***************************************************************************)
(* tenacity's @retry(stop=stop_after_attempt(3)): call again only when the *)
(* wrapped function raised, at most STOP_AFTER_ATTEMPT attempts in all.    *)
(* made counts the external calls of the earlier attempts.                 *)
(***************************************************************************)
RECURSIVE retry(_, _, _, _, _)
retry(v, blank, outcomes, attempt, made) ==
    LET r == translate_text(v, blank, outcomes[attempt])
    IN  IF r.raised /\ attempt < STOP_AFTER_ATTEMPT
        THEN retry(v, blank, outcomes, attempt + 1, made + r.calls)
        ELSE [raised |-> r.raised, text |-> r.text, calls |-> made + r.calls]

translate_text_with_retry(v, blank, outcomes) == retry(v, blank, outcomes, 1, 0)

Outcomes == [1..STOP_AFTER_ATTEMPT -> {"ok", "fail"}]

AllFail(outcomes) == \A a \in DOMAIN outcomes : outcomes[a] = "fail"

AnyFail(outcomes) == \E a \in DOMAIN outcomes : outcomes[a] = "fail"

(***************************************************************************)
(* process_paragraphs: what one paragraph adds to writer.temp_doc.         *)
(***************************************************************************)
page_break_after_five(i) == (i % 5 = 0) \/ IsHeading(i)

page_break_after(i) == (i % PAGE_BREAK_INTERVAL = 0) \/ IsHeading(i)

ParaOutput_two_paragraphs(i, translated) ==
    <<ParaBlock(i, ~IsBlank(i), "none"), ParaBlock(i, FALSE, translated)>>
        \o (IF page_break_after(i) THEN <<PageBreakBlock>> ELSE <<>>)

ParaOutput(i, translated) ==
    <<ParaBlock(i, ~IsBlank(i), translated)>>
        \o (IF page_break_after(i) THEN <<PageBreakBlock>> ELSE <<>>)

(***************************************************************************)
(* process_tables: a page break goes to writer.temp_doc after every second *)
(* table; the translated cell text goes into the table of the source       *)
(* document object.                                                        *)
(***************************************************************************)
table_break_after(j) == j % TABLE_BREAK_INTERVAL = 0

TableOutput(j) == IF table_break_after(j) THEN <<PageBreakBlock>> ELSE <<>>

(***************************************************************************)
(* The working document a run leaves behind when it has flushed the output *)
(* of tables 1..t and paragraphs 1..k, every translation having succeeded. *)
(***************************************************************************)
RECURSIVE TablesPrefix(_)
TablesPrefix(t) == IF t = 0 THEN <<>> ELSE TablesPrefix(t - 1) \o TableOutput(t)

RECURSIVE ParasPrefix(_, _)
ParasPrefix(v, k) ==
    IF k = 0 THEN <<>>
    ELSE ParasPrefix(v, k - 1)
            \o ParaOutput(k, translate_text(v, IsBlank(k), "ok").text)

PriorOutput(v, k, t) == TablesPrefix(t) \o ParasPrefix(v, k)

(***************************************************************************)
(* Reading documents back: the paragraph blocks of a document, and the     *)
(* number of leading source paragraphs 1..m whose output block (with its   *)
(* translation run) the document contains.                                 *)
(***************************************************************************)
ParaBlocks(blocks) == SelectSeq(blocks, LAMBDA b : b.kind = "para")

HasOutput(blocks, i) ==
    \E n \in 1..Len(blocks) :
        blocks[n].kind = "para" /\ blocks[n].src = i /\ blocks[n].trans # "none"

RECURSIVE LeadingFrom(_, _, _)
LeadingFrom(blocks, m, n) ==
    IF m < n /\ HasOutput(blocks, m + 1) THEN LeadingFrom(blocks, m + 1, n) ELSE m

LeadingCovered(file, n) == IF file.exists THEN LeadingFrom(file.body, 0, n) ELSE 0

(***************************************************************************)
(* State of one working directory and of the process running main().       *)
(***************************************************************************)
VARIABLES
    variant,        \* which script runs: "deepseek" or "google"
    nParas,         \* len(doc.paragraphs) of the input document
    nTables,        \* len(doc.tables) of the input document
    inputState,     \* the input path: "ok", "missing" or "corrupt"
    progFile,       \* translation_progress.json
    tempFile,       \* .temp_output.docx
    outFile,        \* <input>_translated.docx
    pc,             \* where main() is
    sub,            \* where the current loop iteration is: body, flush, checkpoint
    progress,       \* main()'s progress dict
    wprogress,      \* writer.progress
    tempDoc,        \* writer.temp_doc
    docTables,      \* the translated cell text of each table of doc
    tblIdx,         \* table_idx
    paraIdx,        \* para_idx
    exitCode,       \* process exit status, -1 while running
    run,            \* number of the current run of the script
    choice,         \* the answer to the resume prompt of this run
    startProgress,  \* progress as main() resolved it at start-up
    preTemp,        \* the working document file a resumed run found, when it holds
                    \* exactly the output of the checkpointed paragraphs
    calls,          \* the units this run called the external translator for
    lastGw,         \* the last gateway invocation
    ckRemoved,      \* how this run removed the checkpoint file
    finalSaved,     \* this run wrote the final artifact
    saves,          \* periodic flush+checkpoint pairs process_paragraphs completed
    persistFail,    \* the last periodic flush or checkpoint write of this run that
                    \* raised: the unit it followed and the checkpoint file then
    killedAfterSaves, \* 2 when the previous run was killed right after its second
                    \* periodic flush, -1 otherwise
    faultsLeft      \* faults (a failed translator call, a raised exception)
                    \* the environment may still inject

(***************************************************************************)
(* State of batch_translate.py: the documents found in pages_output and    *)
(* the pipeline process started for each of them, all in one working       *)
(* directory.                                                              *)
(***************************************************************************)
VARIABLES
    nDocs,          \* len(docx_files)
    bpc,            \* where the pipeline of each document is
    bsaves,         \* periodic saves each pipeline has done
    bwritten,       \* the paths each running pipeline has written or removed
    bprog,          \* the pipeline whose data translation_progress.json holds, 0: no file
    btemp           \* the pipeline whose blocks .temp_output.docx holds, 0: no file

(***************************************************************************)
(* State of the pure functions: the paginator and the segmenter.           *)
(***************************************************************************)
VARIABLES
    ppc,            \* "doc": a document to paginate, "paged", "grouped"
    pfrom,          \* "doc": ppaged comes from assign_page_numbers, "given": an input
    pdoc,           \* doc.paragraphs: each paragraph the list of its runs, each run
                    \* the number of <w:br w:type="page"> elements in it
    ppaged,         \* paragraphs_with_page: <<page_num, paragraph>> pairs
    ptotal,         \* the page count assign_page_numbers returns
    psegments       \* the dict of group_into_segments, in insertion order

(***************************************************************************)
(* State of merge_docx.py: the directory it is pointed at, merged.docx in  *)
(* the working directory and the process running main().                   *)
(***************************************************************************)
VARIABLES
    mdir,           \* glob.glob(pattern): the artifacts, in the order they are found
    mtok,           \* the digits after "page-" in each artifact's name, <<>>: none
    mbad,           \* the artifact Document(file) cannot read, 0: none
    mout,           \* merged.docx
    moutBefore,     \* merged.docx as the run found it
    mpc,            \* where main() / merge_docx() is
    mfiles,         \* docx_files after sorted()
    midx,           \* position of the for loop of merge_docx in files
    mdoc,           \* merged_doc.element.body
    mexit           \* process exit status, -1 while running

(***************************************************************************)
(* State of split_docx.py: the call split_docx(input_path,                 *)
(* segment_page_count, output_dir).                                        *)
(***************************************************************************)
VARIABLES
    sdoc,           \* doc.paragraphs, each paragraph the list of its runs as in pdoc
    sN,             \* segment_page_count
    sfault,         \* the call the environment makes raise: add_paragraph for a
                    \* paragraph, or save for a segment index
    spc,            \* "loop", "final", "done"
    spara,          \* para_index + 1 of the paragraph the loop is at
    sglobal,        \* global_page
    sstart,         \* segment_start_page
    ssegidx,        \* segment_index
    scur,           \* current_segment_doc.paragraphs, by index in doc.paragraphs
    ssaved          \* the segment files written, in the order they were written

batchVars == <<nDocs, bpc, bsaves, bwritten, bprog, btemp>>

splitVars == <<sdoc, sN, sfault, spc, spara, sglobal, sstart, ssegidx, scur, ssaved>>

mergeVars == <<mdir, mtok, mbad, mout, moutBefore, mpc, mfiles, midx, mdoc, mexit>>

pureVars == <<ppc, pfrom, pdoc, ppaged, ptotal, psegments>>

inputs == <<variant, nParas, nTables, inputState>>

files == <<progFile, tempFile, outFile>>

memory == <<progress, wprogress, tempDoc, docTables, tblIdx, paraIdx>>

history == <<choice, startProgress, preTemp, calls, lastGw, ckRemoved, finalSaved, saves,
             persistFail>>

budget == <<faultsLeft>>

mainVars == <<inputs, files, pc, sub, memory, exitCode, run, history, killedAfterSaves, budget>>

vars == <<mainVars, batchVars, pureVars, mergeVars, splitVars>>

NoGw == [calls |-> 0, text |-> "none", allFail |-> FALSE, unit |-> <<"none", 0>>]

NoFail == [unit |-> <<"none", 0>>, ckpt |-> NoJson]

PersistFailure(u, file) == [unit |-> u, ckpt |-> file]

NoTables(n) == [j \in 1..n |-> "none"]

Running == {"start", "second", "load", "tables", "paras", "finally"}

(***************************************************************************)
(* Each specification runs one part of the repository; the state of the    *)
(* other parts stays as set here.                                          *)
(***************************************************************************)
BatchParked ==
    /\ nDocs = 0
    /\ bpc = <<>>
    /\ bsaves = <<>>
    /\ bwritten = <<>>
    /\ bprog = 0
    /\ btemp = 0

PureParked ==
    /\ ppc = "parked"
    /\ pfrom = "given"
    /\ pdoc = <<>>
    /\ ppaged = <<>>
    /\ ptotal = 0
    /\ psegments = <<>>

NoSplitFault == [kind |-> "none", at |-> 0]

SplitParked ==
    /\ sdoc = <<>>
    /\ sN = 1
    /\ sfault = NoSplitFault
    /\ spc = "parked"
    /\ spara = 0
    /\ sglobal = 1
    /\ sstart = 1
    /\ ssegidx = 1
    /\ scur = <<>>
    /\ ssaved = <<>>

MergeParked ==
    /\ mdir = <<>>
    /\ mtok = <<>>
    /\ mbad = 0
    /\ mout = NoDoc
    /\ moutBefore = NoDoc
    /\ mpc = "parked"
    /\ mfiles = <<>>
    /\ midx = 0
    /\ mdoc = <<>>
    /\ mexit = -1

MainParked ==
    /\ variant = "deepseek"
    /\ nParas = 0
    /\ nTables = 0
    /\ inputState = "ok"
    /\ progFile = NoJson
    /\ tempFile = NoDoc
    /\ outFile = NoDoc
    /\ pc = "parked"
    /\ sub = "body"
    /\ progress = DefaultWriterProgress
    /\ wprogress = DefaultWriterProgress
    /\ tempDoc = <<>>
    /\ docTables = <<>>
    /\ tblIdx = 0
    /\ paraIdx = 0
    /\ exitCode = -1
    /\ run = 1
    /\ choice = "none"
    /\ startProgress = DefaultWriterProgress
    /\ preTemp = NoDoc
    /\ calls = {}
    /\ lastGw = NoGw
    /\ ckRemoved = "no"
    /\ finalSaved = FALSE
    /\ saves = 0
    /\ persistFail = NoFail
    /\ killedAfterSaves = -1
    /\ faultsLeft = 0

(***************************************************************************)
(* The directory is found empty, or as an earlier run left it when it was  *)
(* killed after checkpointing k > 0 paragraphs and t tables with their     *)
(* output flushed to the working document.                                 *)
(***************************************************************************)
CheckpointCounts(n) == {c \in {0, SAVE_INTERVAL} : c <= n}

Init ==
    /\ variant \in {"deepseek", "google"}
    /\ nParas \in {1, MaxParas}
    /\ nTables \in {0, MaxTables}
    /\ inputState \in {"ok", "missing", "corrupt"}
    /\ \/ progFile = NoJson /\ tempFile = NoDoc
       \/ \E k \in CheckpointCounts(nParas), t \in CheckpointCounts(nTables) :
            /\ k > 0
            /\ progFile = JsonFile(MainProgress(variant, k, t))
            /\ tempFile = DocFile(PriorOutput(variant, k, t))
    /\ outFile = NoDoc
    /\ pc = "start"
    /\ sub = "body"
    /\ progress = DefaultWriterProgress
    /\ wprogress = DefaultWriterProgress
    /\ tempDoc = <<>>
    /\ docTables = NoTables(nTables)
    /\ tblIdx = 0
    /\ paraIdx = 0
    /\ exitCode = -1
    /\ run = 1
    /\ choice = "none"
    /\ startProgress = DefaultWriterProgress
    /\ preTemp = NoDoc
    /\ calls = {}
    /\ lastGw = NoGw
    /\ ckRemoved = "no"
    /\ finalSaved = FALSE
    /\ saves = 0
    /\ persistFail = NoFail
    /\ killedAfterSaves = -1
    /\ faultsLeft = MaxFaults
    /\ BatchParked
    /\ PureParked
    /\ MergeParked
    /\ SplitParked

(***************************************************************************)
(* main(): the resume prompt.  deep_seek_translate_docx.py does it before  *)
(* the os.path.isfile test and indexes progress['paragraph'] and           *)
(* progress['table'] in the prompt (KeyError when a key is missing, raised *)
(* outside the try block); google_translate.py does it after the test and  *)
(* uses progress.get.                                                      *)
(***************************************************************************)
ResolveAt(v) == IF v = "deepseek" THEN "start" ELSE "second"

AfterResolve_asks_again(v) == "start"

AfterResolve(v) == IF v = "deepseek" THEN "second" ELSE "load"

PromptRaises(v, d) == v = "deepseek" /\ ~({"paragraph", "table"} \subseteq DOMAIN d)

main_resolve_checkpoint ==
    /\ pc = ResolveAt(variant)
    /\ IF progFile.exists
       THEN IF PromptRaises(variant, progFile.data)
            THEN /\ pc' = "crashed"
                 /\ exitCode' = 1
                 /\ UNCHANGED <<progress, progFile, choice, startProgress, ckRemoved>>
            ELSE \E ch \in {"y", "n"} :
                    /\ choice' = ch
                    /\ progress' = IF ch = "y" THEN progFile.data
                                   ELSE MainProgress(variant, 0, 0)
                    /\ progFile' = IF ch = "y" THEN progFile ELSE NoJson
                    /\ ckRemoved' = IF ch = "y" THEN ckRemoved ELSE "discard"
                    /\ startProgress' = progress'
                    /\ pc' = AfterResolve(variant)
                    /\ UNCHANGED exitCode
       ELSE /\ progress' = MainProgress(variant, 0, 0)
            /\ startProgress' = progress'
            /\ pc' = AfterResolve(variant)
            /\ UNCHANGED <<progFile, choice, ckRemoved, exitCode>>
    /\ UNCHANGED <<inputs, tempFile, outFile, sub, wprogress, tempDoc, docTables,
                   tblIdx, paraIdx, run, preTemp, calls, lastGw, finalSaved, saves,
                   killedAfterSaves, persistFail, budget>>
    /\ UNCHANGED <<batchVars, pureVars, mergeVars, splitVars>>

(***************************************************************************)
(* main(): os.path.isfile(input_path), sys.exit(1) when it is no file.     *)
(***************************************************************************)
CheckInputAt(v) == IF v = "deepseek" THEN "second" ELSE "start"

AfterCheckInput(v) == IF v = "deepseek" THEN "load" ELSE "second"

main_check_input ==
    /\ pc = CheckInputAt(variant)
    /\ IF inputState = "missing"
       THEN pc' = "exited" /\ exitCode' = 1
       ELSE pc' = AfterCheckInput(variant) /\ UNCHANGED exitCode
    /\ UNCHANGED <<inputs, files, sub, memory, run, history, killedAfterSaves, budget>>
    /\ UNCHANGED <<batchVars, pureVars, mergeVars, splitVars>>

(***************************************************************************)
(* RealtimeDocWriter._load_progress: the file's dict, or the default when  *)
(* the file cannot be read.                                                *)
(***************************************************************************)
load_progress_default(file) == DefaultWriterProgress

load_progress(file) == IF file.exists THEN file.data ELSE DefaultWriterProgress

(***************************************************************************)
(* main(): doc = Document(input_path) and writer = RealtimeDocWriter(...), *)
(* whose temp_doc is a new empty Document().  A corrupt input raises into  *)
(* the except clause of main().                                            *)
(***************************************************************************)
NewTempDoc(file) == <<>>

HoldsFirst(file, k) ==
    /\ file.exists
    /\ Len(ParaBlocks(file.body)) = k
    /\ \A n \in 1..k :
        ParaBlocks(file.body)[n].src = n /\ ParaBlocks(file.body)[n].trans # "none"

FoundWorkingDoc ==
    IF choice = "y" /\ Get(startProgress, "paragraph", 0) > 0
        /\ HoldsFirst(tempFile, Get(startProgress, "paragraph", 0))
    THEN tempFile ELSE NoDoc

main_load ==
    /\ pc = "load"
    /\ preTemp' = FoundWorkingDoc
    /\ IF inputState = "corrupt"
       THEN /\ pc' = "finally"
            /\ UNCHANGED <<wprogress, tempDoc, docTables, tblIdx, sub>>
       ELSE /\ tempDoc' = NewTempDoc(tempFile)
            /\ wprogress' = load_progress(progFile)
            /\ docTables' = NoTables(nTables)
            /\ tblIdx' = 1
            /\ sub' = "body"
            /\ pc' = "tables"
    /\ UNCHANGED <<inputs, files, progress, paraIdx, exitCode, run, choice,
                   startProgress, calls, lastGw, ckRemoved, finalSaved, saves,
                   killedAfterSaves, persistFail, budget>>
    /\ UNCHANGED <<batchVars, pureVars, mergeVars, splitVars>>

(***************************************************************************)
(* One gateway call made for unit u by a processing loop: the result, the  *)
(* record of the invocation and the environment's failure budget.          *)
(***************************************************************************)
GatewayRecord(u, r, outcomes) ==
    [calls |-> r.calls, text |-> r.text, allFail |-> AllFail(outcomes), unit |-> u]

CallGateway(u, blank, outcomes) ==
    LET r == translate_text_with_retry(variant, blank, outcomes)
    IN  /\ AnyFail(outcomes) => faultsLeft > 0
        /\ faultsLeft' = IF AnyFail(outcomes) THEN faultsLeft - 1 ELSE faultsLeft
        /\ lastGw' = GatewayRecord(u, r, outcomes)
        /\ calls' = IF r.calls > 0 THEN calls \cup {u} ELSE calls

Raise ==
    /\ faultsLeft > 0
    /\ faultsLeft' = faultsLeft - 1

(***************************************************************************)
(* process_tables: the loop over enumerate(doc.tables, start=1).           *)
(***************************************************************************)
table_skipped(v, j, prog) == j <= Get(prog, TableKey(v), 0)

process_tables_skip ==
    /\ pc = "tables" /\ sub = "body" /\ tblIdx <= nTables
    /\ table_skipped(variant, tblIdx, progress)
    /\ tblIdx' = tblIdx + 1
    /\ UNCHANGED <<inputs, files, pc, sub, progress, wprogress, tempDoc, docTables,
                   paraIdx, exitCode, run, history, killedAfterSaves, budget>>
    /\ UNCHANGED <<batchVars, pureVars, mergeVars, splitVars>>

(***************************************************************************)
(* The try block of one table up to the save test: the cell is translated  *)
(* into the table of doc and a page break follows every second table.  An  *)
(* exception raised by the row and cell handling is printed and the loop   *)
(* continues with the next table.                                          *)
(***************************************************************************)
process_tables_body ==
    /\ pc = "tables" /\ sub = "body" /\ tblIdx <= nTables
    /\ ~table_skipped(variant, tblIdx, progress)
    /\ \/ /\ Raise
          /\ tblIdx' = tblIdx + 1
          /\ UNCHANGED <<sub, tempDoc, docTables, calls, lastGw>>
       \/ \E outcomes \in Outcomes :
            /\ CallGateway(<<"table", tblIdx>>, FALSE, outcomes)
            /\ docTables' = [docTables EXCEPT
                    ![tblIdx] = translate_text_with_retry(variant, FALSE, outcomes).text]
            /\ tempDoc' = tempDoc \o TableOutput(tblIdx)
            /\ IF tblIdx % SAVE_INTERVAL = 0
               THEN sub' = "flush" /\ UNCHANGED tblIdx
               ELSE tblIdx' = tblIdx + 1 /\ UNCHANGED sub
    /\ UNCHANGED <<inputs, files, pc, progress, wprogress, paraIdx, exitCode, run,
                   choice, startProgress, preTemp, ckRemoved, finalSaved, saves,
                   killedAfterSaves, persistFail>>
    /\ UNCHANGED <<batchVars, pureVars, mergeVars, splitVars>>

(***************************************************************************)
(* writer.save(".temp_output.docx"): the whole temp_doc replaces the file. *)
(***************************************************************************)
writer_save_nothing(doc) == NoDoc

writer_save(doc) == DocFile(doc)

process_tables_flush ==
    /\ pc = "tables" /\ sub = "flush"
    /\ \/ /\ tempFile' = writer_save(tempDoc)
          /\ sub' = "checkpoint"
          /\ UNCHANGED <<tblIdx, faultsLeft, persistFail>>
       \/ /\ Raise
          /\ persistFail' = PersistFailure(<<"table", tblIdx>>, progFile)
          /\ sub' = "body"
          /\ tblIdx' = tblIdx + 1
          /\ UNCHANGED tempFile
    /\ UNCHANGED <<inputs, progFile, outFile, pc, progress, wprogress, tempDoc,
                   docTables, paraIdx, exitCode, run, choice, startProgress, preTemp, calls, lastGw,
                   ckRemoved, finalSaved, saves, killedAfterSaves>>
    /\ UNCHANGED <<batchVars, pureVars, mergeVars, splitVars>>

(***************************************************************************)
(* The dict each loop dumps to translation_progress.json:                  *)
(* deep_seek_translate_docx.process_tables dumps main()'s progress; the    *)
(* other three loops call writer.save_progress(), which dumps              *)
(* writer.progress.                                                        *)
(***************************************************************************)
tables_checkpoint_data(v, prog, wprog) == IF v = "deepseek" THEN prog ELSE wprog

save_progress(prog, wprog) == wprog

process_tables_checkpoint ==
    /\ pc = "tables" /\ sub = "checkpoint"
    /\ progress' = Put(progress, TableKey(variant), tblIdx)
    /\ \/ /\ progFile' = JsonFile(tables_checkpoint_data(variant, progress', wprogress))
          /\ UNCHANGED <<faultsLeft, persistFail>>
       \/ /\ Raise
          /\ persistFail' = PersistFailure(<<"table", tblIdx>>, progFile)
          /\ UNCHANGED progFile
    /\ sub' = "body"
    /\ tblIdx' = tblIdx + 1
    /\ UNCHANGED <<inputs, tempFile, outFile, pc, wprogress, tempDoc, docTables,
                   paraIdx, exitCode, run, choice, startProgress, preTemp, calls, lastGw,
                   ckRemoved, finalSaved, saves, killedAfterSaves>>
    /\ UNCHANGED <<batchVars, pureVars, mergeVars, splitVars>>

(***************************************************************************)
(* main(): process_tables returns and process_paragraphs starts.           *)
(***************************************************************************)
main_enter_paragraphs ==
    /\ pc = "tables" /\ sub = "body" /\ tblIdx > nTables
    /\ pc' = "paras"
    /\ paraIdx' = 1
    /\ UNCHANGED <<inputs, files, sub, progress, wprogress, tempDoc, docTables,
                   tblIdx, exitCode, run, history, killedAfterSaves, budget>>
    /\ UNCHANGED <<batchVars, pureVars, mergeVars, splitVars>>

(***************************************************************************)
(* process_paragraphs: the loop over enumerate(doc.paragraphs, start=1).   *)
(***************************************************************************)
para_skipped_below(i, prog) == i < Get(prog, "paragraph", 0)

para_skipped(i, prog) == i <= Get(prog, "paragraph", 0)

process_paragraphs_skip ==
    /\ pc = "paras" /\ sub = "body" /\ paraIdx <= nParas
    /\ para_skipped(paraIdx, progress)
    /\ paraIdx' = paraIdx + 1
    /\ UNCHANGED <<inputs, files, pc, sub, progress, wprogress, tempDoc, docTables,
                   tblIdx, exitCode, run, history, killedAfterSaves, budget>>
    /\ UNCHANGED <<batchVars, pureVars, mergeVars, splitVars>>

(***************************************************************************)
(* The try block of one paragraph up to the save test.  add_paragraph      *)
(* appends the new paragraph before it clones the style, so an exception   *)
(* raised while cloning leaves a paragraph without runs behind.            *)
(***************************************************************************)
process_paragraphs_body ==
    /\ pc = "paras" /\ sub = "body" /\ paraIdx <= nParas
    /\ ~para_skipped(paraIdx, progress)
    /\ \/ /\ Raise
          /\ tempDoc' = Append(tempDoc, ParaBlock(paraIdx, FALSE, "none"))
          /\ paraIdx' = paraIdx + 1
          /\ UNCHANGED <<sub, calls, lastGw>>
       \/ \E outcomes \in Outcomes :
            /\ CallGateway(<<"para", paraIdx>>, IsBlank(paraIdx), outcomes)
            /\ tempDoc' = tempDoc \o ParaOutput(paraIdx,
                    translate_text_with_retry(variant, IsBlank(paraIdx), outcomes).text)
            /\ IF paraIdx % SAVE_INTERVAL = 0
               THEN sub' = "flush" /\ UNCHANGED paraIdx
               ELSE paraIdx' = paraIdx + 1 /\ UNCHANGED sub
    /\ UNCHANGED <<inputs, files, pc, progress, wprogress, docTables, tblIdx, exitCode,
                   run, choice, startProgress, preTemp, ckRemoved, finalSaved, saves,
                   killedAfterSaves, persistFail>>
    /\ UNCHANGED <<batchVars, pureVars, mergeVars, splitVars>>

process_paragraphs_flush ==
    /\ pc = "paras" /\ sub = "flush"
    /\ \/ /\ tempFile' = writer_save(tempDoc)
          /\ sub' = "checkpoint"
          /\ UNCHANGED <<paraIdx, faultsLeft, persistFail>>
       \/ /\ Raise
          /\ persistFail' = PersistFailure(<<"para", paraIdx>>, progFile)
          /\ sub' = "body"
          /\ paraIdx' = paraIdx + 1
          /\ UNCHANGED tempFile
    /\ UNCHANGED <<inputs, progFile, outFile, pc, progress, wprogress, tempDoc,
                   docTables, tblIdx, exitCode, run, choice, startProgress, preTemp, calls, lastGw,
                   ckRemoved, finalSaved, saves, killedAfterSaves>>
    /\ UNCHANGED <<batchVars, pureVars, mergeVars, splitVars>>

process_paragraphs_checkpoint ==
    /\ pc = "paras" /\ sub = "checkpoint"
    /\ progress' = Put(progress, "paragraph", paraIdx)
    /\ \/ /\ progFile' = JsonFile(save_progress(progress', wprogress))
          /\ saves' = saves + 1
          /\ UNCHANGED <<faultsLeft, persistFail>>
       \/ /\ Raise
          /\ persistFail' = PersistFailure(<<"para", paraIdx>>, progFile)
          /\ UNCHANGED <<progFile, saves>>
    /\ sub' = "body"
    /\ paraIdx' = paraIdx + 1
    /\ UNCHANGED <<inputs, tempFile, outFile, pc, wprogress, tempDoc, docTables,
                   tblIdx, exitCode, run, choice, startProgress, preTemp, calls, lastGw,
                   ckRemoved, finalSaved, killedAfterSaves>>
    /\ UNCHANGED <<batchVars, pureVars, mergeVars, splitVars>>

(***************************************************************************)
(* main(): writer.save(output_path) after both loops; an exception goes to *)
(* the except clause.                                                      *)
(***************************************************************************)
main_final_save ==
    /\ pc = "paras" /\ sub = "body" /\ paraIdx > nParas
    /\ \/ /\ outFile' = writer_save(tempDoc)
          /\ finalSaved' = TRUE
          /\ UNCHANGED faultsLeft
       \/ /\ Raise
          /\ UNCHANGED <<outFile, finalSaved>>
    /\ pc' = "finally"
    /\ UNCHANGED <<inputs, progFile, tempFile, sub, memory, exitCode, run, choice,
                   startProgress, preTemp, calls, lastGw, ckRemoved, saves,
                   killedAfterSaves, persistFail>>
    /\ UNCHANGED <<batchVars, pureVars, mergeVars, splitVars>>

(***************************************************************************)
(* main(): the finally clause removes the checkpoint file when it exists,  *)
(* however the try block ended; the script then ends with status 0.        *)
(***************************************************************************)
finally_removes(saved) == TRUE

main_finally ==
    /\ pc = "finally"
    /\ IF progFile.exists /\ finally_removes(finalSaved)
       THEN progFile' = NoJson /\ ckRemoved' = "finally"
       ELSE UNCHANGED <<progFile, ckRemoved>>
    /\ pc' = "exited"
    /\ exitCode' = 0
    /\ UNCHANGED <<inputs, tempFile, outFile, sub, memory, run, choice, startProgress,
                   preTemp, calls, lastGw, finalSaved, saves, killedAfterSaves, persistFail, budget>>
    /\ UNCHANGED <<batchVars, pureVars, mergeVars, splitVars>>

(***************************************************************************)
(* The process is killed from outside: its memory is lost, the files stay. *)
(***************************************************************************)
Kill ==
    /\ pc \in Running
    /\ run < MaxRuns
    /\ pc' = "killed"
    /\ killedAfterSaves' =
            IF pc = "paras" /\ sub = "body" /\ paraIdx = saves * SAVE_INTERVAL + 1
                /\ saves = 2 /\ Get(startProgress, "paragraph", 0) = 0
            THEN saves ELSE -1
    /\ sub' = "body"
    /\ progress' = DefaultWriterProgress
    /\ wprogress' = DefaultWriterProgress
    /\ tempDoc' = <<>>
    /\ docTables' = NoTables(nTables)
    /\ tblIdx' = 0
    /\ paraIdx' = 0
    /\ choice' = "none"
    /\ startProgress' = DefaultWriterProgress
    /\ preTemp' = NoDoc
    /\ calls' = {}
    /\ lastGw' = NoGw
    /\ ckRemoved' = "no"
    /\ finalSaved' = FALSE
    /\ saves' = 0
    /\ persistFail' = NoFail
    /\ UNCHANGED <<inputs, files, exitCode, run, budget>>
    /\ UNCHANGED <<batchVars, pureVars, mergeVars, splitVars>>

(***************************************************************************)
(* The script is started again in the same directory.                      *)
(***************************************************************************)
Restart ==
    /\ pc \in {"killed", "crashed"}
    /\ run < MaxRuns
    /\ run' = run + 1
    /\ pc' = "start"
    /\ exitCode' = -1
    /\ UNCHANGED <<inputs, files, sub, memory, history, killedAfterSaves, budget>>
    /\ UNCHANGED <<batchVars, pureVars, mergeVars, splitVars>>

Next ==
    \/ main_resolve_checkpoint
    \/ main_check_input
    \/ main_load
    \/ process_tables_skip
    \/ process_tables_body
    \/ process_tables_flush
    \/ process_tables_checkpoint
    \/ main_enter_paragraphs
    \/ process_paragraphs_skip
    \/ process_paragraphs_body
    \/ process_paragraphs_flush
    \/ process_paragraphs_checkpoint
    \/ main_final_save
    \/ main_finally
    \/ Kill
    \/ Restart

Spec == Init /\ [][Next]_vars

(***************************************************************************)
(* What the claims read off a state.                                       *)
(***************************************************************************)
CheckpointParagraphs(d) == Get(d, "paragraph", 0)

CheckpointTables(v, d) == Get(d, TableKey(v), 0)

ParaCalls == {u[2] : u \in {c \in calls : c[1] = "para"}}

TableCalls == {u[2] : u \in {c \in calls : c[1] = "table"}}

(***************************************************************************)
(* C1: a run killed right after the second periodic flush and checkpoint   *)
(* of process_paragraphs (paragraphs 1..10 processed) and started again    *)
(* resumes: the new run reaches the resume prompt, and with the answer "y" *)
(* it calls the translator for no paragraph before paragraph 11.           *)
(***************************************************************************)
C1_ResumeAfterSecondFlush ==
    (run > 1 /\ killedAfterSaves = 2) =>
        /\ pc # "crashed"
        /\ choice = "y" => \A i \in ParaCalls : i >= 2 * SAVE_INTERVAL + 1

(***************************************************************************)
(* C2: the paragraph count in the checkpoint file never exceeds the number *)
(* of leading source paragraphs whose output the flushed working document  *)
(* holds.                                                                  *)
(***************************************************************************)
C2_CheckpointWithinFlushed ==
    progFile.exists =>
        CheckpointParagraphs(progFile.data) <= LeadingCovered(tempFile, nParas)

(***************************************************************************)
(* C3: a gateway invocation whose external call fails on every attempt     *)
(* makes exactly 3 external calls before it returns the error sentinel.    *)
(***************************************************************************)
C3_ThreeAttemptsOnFailure ==
    (lastGw.calls > 0 /\ lastGw.allFail) =>
        (lastGw.calls = STOP_AFTER_ATTEMPT /\ lastGw.text = "error")

(***************************************************************************)
(* C4: the finally clause of a run removes the checkpoint file only when   *)
(* that run has written the final artifact.                                *)
(***************************************************************************)
C4_CheckpointKeptUnlessDone == ckRemoved = "finally" => finalSaved

(***************************************************************************)
(* C5: a run resumed (answer "y") from a checkpoint with paragraph count k *)
(* and table count t calls the translator for no paragraph with index <= k *)
(* and for no table with index <= t.                                       *)
(***************************************************************************)
C5_NoCallAtOrBelowCheckpoint ==
    choice = "y" =>
        /\ \A i \in ParaCalls : i > CheckpointParagraphs(startProgress)
        /\ \A j \in TableCalls : j > CheckpointTables(variant, startProgress)

C5_Witness ==
    /\ choice = "y"
    /\ CheckpointParagraphs(startProgress) = SAVE_INTERVAL
    /\ CheckpointTables(variant, startProgress) = SAVE_INTERVAL
    /\ (SAVE_INTERVAL + 1) \in ParaCalls
    /\ (SAVE_INTERVAL + 1) \in TableCalls
    /\ pc = "exited"

(***************************************************************************)
(* C6: a run resumed from a checkpoint of k > 0 paragraphs, with a working *)
(* document holding exactly the output of paragraphs 1..k, that writes the *)
(* final artifact writes one whose first k paragraph blocks are those of   *)
(* that working document.                                                  *)
(***************************************************************************)
C6_ResumeKeepsEarlierOutput ==
    (/\ finalSaved
     /\ choice = "y"
     /\ CheckpointParagraphs(startProgress) > 0
     /\ HoldsFirst(preTemp, CheckpointParagraphs(startProgress)))
    => LET k == CheckpointParagraphs(startProgress)
           out == ParaBlocks(outFile.body)
       IN  Len(out) >= k /\ SubSeq(out, 1, k) = ParaBlocks(preTemp.body)

(***************************************************************************)
(* batch_translate.py.  main() globs pages_output/*.docx and maps          *)
(* process_file over the files with a pool of max_workers threads;         *)
(* process_file runs the translation script as a subprocess, which         *)
(* inherits the working directory.  The script names its checkpoint and    *)
(* its working document by the fixed relative paths PROGRESS_FILE and      *)
(* ".temp_output.docx", and its final artifact after its input.            *)
(***************************************************************************)
PROGRESS_FILE == <<"translation_progress.json", 0>>

TEMP_OUTPUT == <<".temp_output.docx", 0>>

checkpoint_path(d) == PROGRESS_FILE

working_path(d) == TEMP_OUTPUT

output_path(d) == <<"_translated.docx", d>>

Docs == 1..nDocs

BatchRunning(d) == bpc[d] \notin {"queued", "finished"}

InitBatch ==
    /\ nDocs \in 0..MaxDocs
    /\ bpc = [d \in 1..nDocs |-> "queued"]
    /\ bsaves = [d \in 1..nDocs |-> 0]
    /\ bwritten = [d \in 1..nDocs |-> {}]
    /\ bprog = 0
    /\ btemp = 0
    /\ MainParked
    /\ PureParked
    /\ MergeParked
    /\ SplitParked

(***************************************************************************)
(* A pool thread takes the next file of the work queue and starts the      *)
(* subprocess.                                                             *)
(***************************************************************************)
process_file_start(d) ==
    /\ bpc[d] = "queued"
    /\ \A e \in Docs : e < d => bpc[e] # "queued"
    /\ Cardinality({e \in Docs : BatchRunning(e)}) < max_workers
    /\ bpc' = [bpc EXCEPT ![d] = "resolve"]
    /\ UNCHANGED <<nDocs, bsaves, bwritten, bprog, btemp, mainVars, pureVars, mergeVars, splitVars>>

(***************************************************************************)
(* The pipeline's main(): the resume prompt, which removes the checkpoint  *)
(* file when the answer is not "y".                                        *)
(***************************************************************************)
pipeline_resolve(d) ==
    /\ bpc[d] = "resolve"
    /\ bpc' = [bpc EXCEPT ![d] = "loop"]
    /\ IF bprog # 0
       THEN \E ch \in {"y", "n"} :
                IF ch = "y" THEN UNCHANGED <<bprog, bwritten>>
                ELSE /\ bprog' = 0
                     /\ bwritten' = [bwritten EXCEPT ![d] = @ \cup {checkpoint_path(d)}]
       ELSE UNCHANGED <<bprog, bwritten>>
    /\ UNCHANGED <<nDocs, bsaves, btemp, mainVars, pureVars, mergeVars, splitVars>>

(***************************************************************************)
(* A periodic save of a processing loop: writer.save(".temp_output.docx"), *)
(* then the dump to PROGRESS_FILE.                                         *)
(***************************************************************************)
pipeline_flush(d) ==
    /\ bpc[d] = "loop"
    /\ bsaves[d] < MaxBatchSaves
    /\ bpc' = [bpc EXCEPT ![d] = "checkpoint"]
    /\ btemp' = d
    /\ bwritten' = [bwritten EXCEPT ![d] = @ \cup {working_path(d)}]
    /\ UNCHANGED <<nDocs, bsaves, bprog, mainVars, pureVars, mergeVars, splitVars>>

pipeline_checkpoint(d) ==
    /\ bpc[d] = "checkpoint"
    /\ bpc' = [bpc EXCEPT ![d] = "loop"]
    /\ bsaves' = [bsaves EXCEPT ![d] = @ + 1]
    /\ bprog' = d
    /\ bwritten' = [bwritten EXCEPT ![d] = @ \cup {checkpoint_path(d)}]
    /\ UNCHANGED <<nDocs, btemp, mainVars, pureVars, mergeVars, splitVars>>

pipeline_final_save(d) ==
    /\ bpc[d] = "loop"
    /\ bpc' = [bpc EXCEPT ![d] = "finally"]
    /\ bwritten' = [bwritten EXCEPT ![d] = @ \cup {output_path(d)}]
    /\ UNCHANGED <<nDocs, bsaves, bprog, btemp, mainVars, pureVars, mergeVars, splitVars>>

pipeline_finally(d) ==
    /\ bpc[d] = "finally"
    /\ bpc' = [bpc EXCEPT ![d] = "exiting"]
    /\ IF bprog # 0
       THEN /\ bprog' = 0
            /\ bwritten' = [bwritten EXCEPT ![d] = @ \cup {checkpoint_path(d)}]
       ELSE UNCHANGED <<bprog, bwritten>>
    /\ UNCHANGED <<nDocs, bsaves, btemp, mainVars, pureVars, mergeVars, splitVars>>

(***************************************************************************)
(* subprocess.run returns and process_file prints the output.              *)
(***************************************************************************)
process_file_finish(d) ==
    /\ bpc[d] = "exiting"
    /\ bpc' = [bpc EXCEPT ![d] = "finished"]
    /\ bwritten' = [bwritten EXCEPT ![d] = {}]
    /\ UNCHANGED <<nDocs, bsaves, bprog, btemp, mainVars, pureVars, mergeVars, splitVars>>

NextBatch ==
    \/ \E d \in Docs : process_file_start(d)
    \/ \E d \in Docs : pipeline_resolve(d)
    \/ \E d \in Docs : pipeline_flush(d)
    \/ \E d \in Docs : pipeline_checkpoint(d)
    \/ \E d \in Docs : pipeline_final_save(d)
    \/ \E d \in Docs : pipeline_finally(d)
    \/ \E d \in Docs : process_file_finish(d)

SpecBatch == InitBatch /\ [][NextBatch]_vars

(***************************************************************************)
(* C7: no two pipelines that run at the same time have written or removed  *)
(* the same checkpoint file or the same working document.                  *)
(***************************************************************************)
C7_SingleWriterPerFile ==
    \A d \in Docs : \A e \in Docs :
        (d # e /\ BatchRunning(d) /\ BatchRunning(e))
            => bwritten[d] \cap bwritten[e] = {}

(***************************************************************************)
(* The paginator.  A run has a page break when one of its <w:br> elements  *)
(* is of type "page"; assign_page_numbers appends (page_num, paragraph)    *)
(* and then advances page_num by one at the first run with a page break    *)
(* (the inner loop ends with break).  count_page_breaks of split_docx.py   *)
(* counts the runs with a page break.                                      *)
(***************************************************************************)
run_has_page_break(r) == r > 0

count_page_breaks(paragraph) ==
    Cardinality({n \in 1..Len(paragraph) : run_has_page_break(paragraph[n])})

next_page_counted(page_num, paragraph) == page_num + count_page_breaks(paragraph)

next_page(page_num, paragraph) ==
    IF \E n \in 1..Len(paragraph) : run_has_page_break(paragraph[n])
    THEN page_num + 1
    ELSE page_num

RECURSIVE assign_from(_, _, _, _)
assign_from(doc, i, page_num, acc) ==
    IF i > Len(doc)
    THEN [paged |-> acc, total |-> page_num]
    ELSE assign_from(doc, i + 1, next_page(page_num, doc[i]),
                     Append(acc, <<page_num, i>>))

assign_page_numbers(doc) == assign_from(doc, 1, 1, <<>>)

(***************************************************************************)
(* The segmenter.  The dict of group_into_segments is the list of its      *)
(* (key, value) pairs in insertion order.                                  *)
(***************************************************************************)
segment_index_from_zero(page_num) == (page_num \div PAGES_PER_SEGMENT) + 1

segment_index(page_num) == ((page_num - 1) \div PAGES_PER_SEGMENT) + 1

KeyPosition(segments, k) ==
    IF \E n \in 1..Len(segments) : segments[n].index = k
    THEN CHOOSE n \in 1..Len(segments) : segments[n].index = k
    ELSE 0

RECURSIVE group_from(_, _, _)
group_from(paged, i, segments) ==
    IF i > Len(paged)
    THEN segments
    ELSE LET k == segment_index(paged[i][1])
             at == KeyPosition(segments, k)
         IN  group_from(paged, i + 1,
                IF at = 0
                THEN Append(segments, [index |-> k, items |-> <<paged[i]>>])
                ELSE [segments EXCEPT ![at].items = Append(@, paged[i])])

group_into_segments(paged) == group_from(paged, 1, <<>>)

(***************************************************************************)
(* Inputs of the pure functions: documents of at most MaxBlocks paragraphs *)
(* of these kinds, and paginated lists of at most MaxPaged blocks on pages *)
(* 1..MaxPage (block n of a list is named n).                              *)
(***************************************************************************)
ParagraphKinds == {<<>>, <<0>>, <<1>>, <<2>>, <<0, 1>>, <<1, 0>>, <<1, 1>>, <<1, 2, 0>>}

DocsUpTo(n) == UNION {[1..m -> ParagraphKinds] : m \in 0..n}

PagedUpTo(n) ==
    UNION {{[b \in 1..m |-> <<pages[b], b>>] : pages \in [1..m -> 1..MaxPage]} : m \in 0..n}

InitPure ==
    /\ \/ /\ ppc = "doc"
          /\ pfrom = "doc"
          /\ pdoc \in DocsUpTo(MaxBlocks)
          /\ ppaged = <<>>
       \/ /\ ppc = "paged"
          /\ pfrom = "given"
          /\ pdoc = <<>>
          /\ ppaged \in PagedUpTo(MaxPaged)
    /\ ptotal = 0
    /\ psegments = <<>>
    /\ MainParked
    /\ BatchParked
    /\ MergeParked
    /\ SplitParked

Paginate ==
    /\ ppc = "doc"
    /\ ppc' = "paged"
    /\ ppaged' = assign_page_numbers(pdoc).paged
    /\ ptotal' = assign_page_numbers(pdoc).total
    /\ UNCHANGED <<pfrom, pdoc, psegments, mainVars, batchVars, mergeVars, splitVars>>

Group ==
    /\ ppc = "paged"
    /\ ppc' = "grouped"
    /\ psegments' = group_into_segments(ppaged)
    /\ UNCHANGED <<pfrom, pdoc, ppaged, ptotal, mainVars, batchVars, mergeVars, splitVars>>

NextPure ==
    \/ Paginate
    \/ Group

SpecPure == InitPure /\ [][NextPure]_vars

(***************************************************************************)
(* C8: group_into_segments puts each block with page number p in the       *)
(* segment k with (k-1)*P < p <= k*P, every input block is in exactly one  *)
(* place of exactly one segment, the segments hold nothing else, and empty *)
(* input gives no segment.                                                 *)
(***************************************************************************)
Places == {<<s, m>> \in (1..Len(psegments)) \X (1..Len(ppaged)) :
                m <= Len(psegments[s].items)}

C8_SegmentsPartitionInput ==
    ppc = "grouped" =>
        /\ \A n \in 1..Len(ppaged) :
            /\ Cardinality({pl \in Places : psegments[pl[1]].items[pl[2]] = ppaged[n]}) = 1
            /\ \A pl \in Places :
                psegments[pl[1]].items[pl[2]] = ppaged[n] =>
                    /\ (psegments[pl[1]].index - 1) * PAGES_PER_SEGMENT < ppaged[n][1]
                    /\ ppaged[n][1] <= psegments[pl[1]].index * PAGES_PER_SEGMENT
        /\ \A s \in 1..Len(psegments) :
            /\ Len(psegments[s].items) >= 1
            /\ Len(psegments[s].items) <= Len(ppaged)
            /\ \A t \in 1..Len(psegments) : psegments[s].index = psegments[t].index => s = t
        /\ Cardinality(Places) = Len(ppaged)
        /\ ppaged = <<>> => psegments = <<>>

C8_Witness ==
    /\ ppc = "grouped"
    /\ pfrom = "given"
    /\ Len(ppaged) = 3
    /\ Len(psegments) = 2
    /\ ppaged[1][1] = PAGES_PER_SEGMENT + 1
    /\ ppaged[2][1] = PAGES_PER_SEGMENT
    /\ ppaged[3][1] = 2 * PAGES_PER_SEGMENT

(***************************************************************************)
(* C9: assign_page_numbers returns one pair per paragraph in input order,  *)
(* the first on page 1, each later one on the page of its predecessor plus *)
(* one when the predecessor carries a page break and plus zero otherwise.  *)
(***************************************************************************)
CarriesPageBreak(paragraph) == \E n \in 1..Len(paragraph) : paragraph[n] > 0

C9_PageNumbersFollowBreaks ==
    (pfrom = "doc" /\ ppc # "doc") =>
        /\ Len(ppaged) = Len(pdoc)
        /\ \A n \in 1..Len(ppaged) :
            /\ ppaged[n][2] = n
            /\ n = 1 => ppaged[n][1] = 1
            /\ n > 1 => ppaged[n][1] = ppaged[n - 1][1]
                            + (IF CarriesPageBreak(pdoc[n - 1]) THEN 1 ELSE 0)

C9_Witness ==
    /\ pfrom = "doc"
    /\ ppc = "paged"
    /\ Len(pdoc) = 3
    /\ pdoc[1] = <<1, 1>>
    /\ pdoc[2] = <<0>>
    /\ pdoc[3] = <<1, 0>>
    /\ ppaged = <<<<1, 1>>, <<2, 2>>, <<2, 3>>>>
    /\ ptotal = 3

(***************************************************************************)
(* C10: after a block that carries n > 1 page-break markers the running    *)
(* page counter is n higher: the next block's page number is the block's   *)
(* page number plus n.                                                     *)
(***************************************************************************)
C10_CounterAdvancesByMarkerCount ==
    (pfrom = "doc" /\ ppc # "doc") =>
        \A n \in 1..Len(pdoc) :
            (count_page_breaks(pdoc[n]) > 1 /\ n < Len(pdoc)) =>
                ppaged[n + 1][1] = ppaged[n][1] + count_page_breaks(pdoc[n])

(***************************************************************************)
(* merge_docx.py.  An artifact is a file of the directory whose name       *)
(* matches *_translated_*.docx; the model names it by a number and keeps   *)
(* the digits that follow "page-" in its name (none when the name does not *)
(* match page-(\d+)_translated).  Every document python-docx writes ends   *)
(* its body with a w:sectPr element; a new Document() holds only that one. *)
(***************************************************************************)
Tokens == {<<>>, <<0>>, <<2>>, <<1, 0>>}

ArtifactBlock(f, n) == [kind |-> "para", art |-> f, n |-> n]

SectPr(f) == [kind |-> "sectPr", art |-> f, n |-> 0]

MergerPageBreak == [kind |-> "pagebreak", art |-> 0, n |-> 0]

EarlierMerge == [kind |-> "para", art |-> 0, n |-> 0]

Document(f) == <<ArtifactBlock(f, 1), ArtifactBlock(f, 2), SectPr(f)>>

NewDocument == <<SectPr(0)>>

RECURSIVE int(_)
int(digits) ==
    IF digits = <<>> THEN 0
    ELSE 10 * int(SubSeq(digits, 1, Len(digits) - 1)) + digits[Len(digits)]

(***************************************************************************)
(* get_page_number: int(match.group(1)) if match else 0.                   *)
(***************************************************************************)
get_page_number_one_digit(f) == IF Len(mtok[f]) = 1 THEN int(mtok[f]) ELSE 0

get_page_number_none_last(f) == IF mtok[f] # <<>> THEN int(mtok[f]) ELSE 99

get_page_number(f) == IF mtok[f] # <<>> THEN int(mtok[f]) ELSE 0

(***************************************************************************)
(* sorted(docx_files, key=get_page_number): a stable sort, files of equal  *)
(* key keep the order glob found them in.                                  *)
(***************************************************************************)
RECURSIVE insort(_, _)
insort(s, f) ==
    IF s = <<>> THEN <<f>>
    ELSE IF get_page_number(Head(s)) <= get_page_number(f)
         THEN <<Head(s)>> \o insort(Tail(s), f)
         ELSE <<f>> \o s

RECURSIVE sorted(_)
sorted(docx_files) ==
    IF docx_files = <<>> THEN <<>>
    ELSE insort(sorted(SubSeq(docx_files, 1, Len(docx_files) - 1)), docx_files[Len(docx_files)])

(***************************************************************************)
(* merged_doc.element.body.append(element) for every element of the sub    *)
(* document's body puts them at the end of the body.                       *)
(* merged_doc.add_page_break() adds a paragraph through CT_Body.add_p,     *)
(* which inserts before the first w:sectPr child of the body and appends   *)
(* only when there is none.                                                *)
(***************************************************************************)
append_elements(body, sub_doc) == body \o sub_doc

SectPrAt(body) == {n \in 1..Len(body) : body[n].kind = "sectPr"}

FirstSectPr(body) == CHOOSE n \in SectPrAt(body) : \A m \in SectPrAt(body) : n <= m

add_page_break(body) ==
    IF SectPrAt(body) = {} THEN Append(body, MergerPageBreak)
    ELSE SubSeq(body, 1, FirstSectPr(body) - 1) \o <<MergerPageBreak>>
            \o SubSeq(body, FirstSectPr(body), Len(body))

merge_one(body, docx_files, idx) ==
    LET appended == append_elements(body, Document(docx_files[idx]))
    IN  IF idx < Len(docx_files) THEN add_page_break(appended) ELSE appended

RECURSIVE merge_from(_, _, _)
merge_from(body, docx_files, idx) ==
    IF idx > Len(docx_files) THEN body
    ELSE merge_from(merge_one(body, docx_files, idx), docx_files, idx + 1)

Orders(n) == {s \in [1..n -> 1..n] : \A a, b \in 1..n : s[a] = s[b] => a = b}

InitMerge ==
    /\ \E n \in 0..MaxArtifacts :
        /\ mdir \in Orders(n)
        /\ mtok \in [1..n -> Tokens]
        /\ mbad \in 0..n
    /\ mout \in {NoDoc, DocFile(<<EarlierMerge>>)}
    /\ moutBefore = mout
    /\ mpc = "start"
    /\ mfiles = <<>>
    /\ midx = 0
    /\ mdoc = <<>>
    /\ mexit = -1
    /\ MainParked
    /\ BatchParked
    /\ PureParked
    /\ SplitParked

(***************************************************************************)
(* main() of merge_docx.py up to the for loop of merge_docx: the glob, the *)
(* exit when nothing matches, the sort, merged_doc = Document().           *)
(***************************************************************************)
no_files_unchecked(found) == FALSE

no_files(found) == found = <<>>

merge_main ==
    /\ mpc = "start"
    /\ IF no_files(mdir)
       THEN /\ mpc' = "exited"
            /\ mexit' = 1
            /\ UNCHANGED <<mfiles, midx, mdoc>>
       ELSE /\ mfiles' = sorted(mdir)
            /\ mdoc' = NewDocument
            /\ midx' = 1
            /\ mpc' = "merging"
            /\ UNCHANGED mexit
    /\ UNCHANGED <<mdir, mtok, mbad, mout, moutBefore>>
    /\ UNCHANGED <<mainVars, batchVars, pureVars, splitVars>>

(***************************************************************************)
(* merge_docx: one iteration of the for loop.  Document(file) raising is   *)
(* caught nowhere: the process ends with a traceback.                      *)
(***************************************************************************)
merge_docx_file ==
    /\ mpc = "merging"
    /\ midx <= Len(mfiles)
    /\ IF mfiles[midx] = mbad
       THEN /\ mpc' = "crashed"
            /\ mexit' = 1
            /\ UNCHANGED <<midx, mdoc>>
       ELSE /\ mdoc' = merge_one(mdoc, mfiles, midx)
            /\ midx' = midx + 1
            /\ UNCHANGED <<mpc, mexit>>
    /\ UNCHANGED <<mdir, mtok, mbad, mout, moutBefore, mfiles>>
    /\ UNCHANGED <<mainVars, batchVars, pureVars, splitVars>>

(***************************************************************************)
(* merge_docx: merged_doc.save(output_path) after the loop.                *)
(***************************************************************************)
merge_docx_save ==
    /\ mpc = "merging"
    /\ midx > Len(mfiles)
    /\ mout' = DocFile(mdoc)
    /\ mpc' = "exited"
    /\ mexit' = 0
    /\ UNCHANGED <<mdir, mtok, mbad, moutBefore, mfiles, midx, mdoc>>
    /\ UNCHANGED <<mainVars, batchVars, pureVars, splitVars>>

NextMerge ==
    \/ merge_main
    \/ merge_docx_file
    \/ merge_docx_save

SpecMerge == InitMerge /\ [][NextMerge]_vars

(***************************************************************************)
(* What the merge claims read off a state.                                 *)
(***************************************************************************)
Merged == mpc = "exited" /\ mexit = 0

Parsed(f) == mtok[f] # <<>>

ContentAt(body, f) == {n \in 1..Len(body) : body[n].art = f /\ body[n].kind # "pagebreak"}

PrecedesIn(body, f, g) == \A a \in ContentAt(body, f), b \in ContentAt(body, g) : a < b

DiscoveredAt(f) == CHOOSE n \in 1..Len(mdir) : mdir[n] = f

PageBreaksAt(body) == {n \in 1..Len(body) : body[n].kind = "pagebreak"}

Between(body, b, f, g) ==
    /\ \A a \in ContentAt(body, f) : a < b
    /\ \A c \in ContentAt(body, g) : b < c

(***************************************************************************)
(* C11: in the merged document all content of an artifact with parsed page *)
(* number a precedes all content of an artifact with parsed page number b  *)
(* whenever a < b as integers (page-2 before page-10).                     *)
(***************************************************************************)
C11_NumericPageOrder ==
    Merged =>
        \A f, g \in 1..Len(mdir) :
            (Parsed(f) /\ Parsed(g) /\ int(mtok[f]) < int(mtok[g]))
                => PrecedesIn(mout.body, f, g)

C11_Witness ==
    /\ Merged
    /\ \E f, g \in 1..Len(mdir) :
        /\ mtok[f] = <<2>> /\ mtok[g] = <<1, 0>>
        /\ DiscoveredAt(g) < DiscoveredAt(f)
        /\ PrecedesIn(mout.body, f, g)

(***************************************************************************)
(* C12: the merged document does not depend on the order in which the      *)
(* artifacts are discovered: merging any permutation of the same artifacts *)
(* gives the block sequence that was written.                              *)
(***************************************************************************)
C12_DiscoveryOrderIrrelevant ==
    Merged =>
        \A p \in Orders(Len(mdir)) : merge_from(NewDocument, sorted(p), 1) = mout.body

(***************************************************************************)
(* C13: merging n >= 1 artifacts inserts exactly n-1 page breaks, one      *)
(* between the content of every two consecutive artifacts, each break      *)
(* between two consecutive artifacts and none after the last artifact.     *)
(***************************************************************************)
C13_BreaksBetweenArtifacts ==
    Merged =>
        LET body == mout.body
            n == Len(mfiles)
        IN  /\ Cardinality(PageBreaksAt(body)) = n - 1
            /\ \A i \in 1..(n - 1) :
                \E b \in PageBreaksAt(body) : Between(body, b, mfiles[i], mfiles[i + 1])
            /\ \A b \in PageBreaksAt(body) :
                \E i \in 1..(n - 1) : Between(body, b, mfiles[i], mfiles[i + 1])

(***************************************************************************)
(* C14: a merge that fails (no matching artifact, or an artifact that      *)
(* cannot be read) leaves merged.docx as it was; merged.docx is written    *)
(* only after every artifact has been concatenated.                        *)
(***************************************************************************)
C14_NoPartialMerge ==
    /\ (mdir = <<>> \/ mpc = "crashed") => mout = moutBefore
    /\ mout # moutBefore =>
        /\ midx > Len(mfiles)
        /\ \A f \in 1..Len(mdir) :
            \A n \in 1..Len(Document(f)) :
                \E m \in 1..Len(mout.body) : mout.body[m] = Document(f)[n]

C14_Witness ==
    /\ mpc = "crashed"
    /\ midx > 1
    /\ moutBefore.exists
    /\ mout = moutBefore

(***************************************************************************)
(* C15 as stated: an artifact whose name has no parseable page number has  *)
(* its content before the content of every artifact whose page number was  *)
(* parsed, and such a name does not make the merge crash.                  *)
(***************************************************************************)
C15_UnparsedBeforeEveryParsed ==
    /\ Merged =>
        \A f, g \in 1..Len(mdir) :
            (~Parsed(f) /\ Parsed(g)) => PrecedesIn(mout.body, f, g)
    /\ mpc = "crashed" => mbad # 0

(***************************************************************************)
(* C15 amended: an artifact whose name has no parseable page number has    *)
(* its content before the content of every artifact whose parsed page      *)
(* number is at least 1, and such a name does not make the merge crash.    *)
(***************************************************************************)
C15_UnparsedBeforePositivePages ==
    /\ Merged =>
        \A f, g \in 1..Len(mdir) :
            (~Parsed(f) /\ Parsed(g) /\ int(mtok[g]) >= 1) => PrecedesIn(mout.body, f, g)
    /\ mpc = "crashed" => mbad # 0

C15_Witness ==
    /\ Merged
    /\ \E f, g \in 1..Len(mdir) :
        /\ ~Parsed(f) /\ Parsed(g) /\ int(mtok[g]) >= 1
        /\ DiscoveredAt(g) < DiscoveredAt(f)
        /\ PrecedesIn(mout.body, f, g)

(***************************************************************************)
(* C16: a gateway invocation for an empty or whitespace-only paragraph     *)
(* returns the empty result and makes no call to the external service.     *)
(***************************************************************************)
C16_BlankTextMakesNoCall ==
    (lastGw.unit[1] = "para" /\ IsBlank(lastGw.unit[2])) =>
        (lastGw.calls = 0 /\ lastGw.text = "empty")

(***************************************************************************)
(* translate_text wraps the external call in try/except Exception, so no   *)
(* pattern of failing calls leaves translate_text_with_retry as an         *)
(* exception.                                                              *)
(***************************************************************************)
GatewayNeverRaises ==
    \A v \in {"deepseek", "google"}, o \in Outcomes :
        ~translate_text_with_retry(v, FALSE, o).raised

(***************************************************************************)
(* C17: a failing external call never leaves the gateway as an exception   *)
(* and never ends the run: the gateway returns the error sentinel, the     *)
(* paragraph's output block is written with the sentinel as its            *)
(* translation, and the loop moves on past the paragraph.                  *)
(***************************************************************************)
C17_FailureBecomesSentinelBlock ==
    /\ GatewayNeverRaises
    /\ (lastGw.unit[1] = "para" /\ lastGw.text = "error") =>
        LET i == lastGw.unit[2]
        IN  /\ pc \in {"paras", "finally", "exited"}
            /\ \E n \in 1..Len(tempDoc) : tempDoc[n] = ParaBlock(i, ~IsBlank(i), "error")
            /\ paraIdx > i \/ sub # "body"

C17_Witness ==
    /\ pc = "exited"
    /\ finalSaved
    /\ \E n, m \in 1..Len(outFile.body) :
        /\ n < m
        /\ outFile.body[n].kind = "para" /\ outFile.body[n].trans = "error"
        /\ outFile.body[m].kind = "para" /\ outFile.body[m].trans = "ok"
        /\ outFile.body[m].src = outFile.body[n].src + 1

(***************************************************************************)
(* C18: after a periodic flush or checkpoint write has failed, the run     *)
(* translates no unit after the one the failure followed, and the          *)
(* checkpoint file is still what it was at the failure.                    *)
(***************************************************************************)
C18_PersistenceFailureStopsRun ==
    persistFail # NoFail =>
        /\ \A u \in calls : u[1] = persistFail.unit[1] => u[2] <= persistFail.unit[2]
        /\ persistFail.unit[1] = "table" => ParaCalls = {}
        /\ progFile = persistFail.ckpt

(***************************************************************************)
(* C19: the paragraph count in the checkpoint file never decreases: no     *)
(* step replaces the file by one with a lower count, and a run resumed     *)
(* with the answer "y" never stores a count below the one it resumed from. *)
(***************************************************************************)
C19_CheckpointCountNeverDecreases ==
    [][/\ (progFile.exists /\ progFile'.exists) =>
            CheckpointParagraphs(progFile'.data) >= CheckpointParagraphs(progFile.data)
       /\ (choice' = "y" /\ progFile'.exists) =>
            CheckpointParagraphs(progFile'.data) >= CheckpointParagraphs(startProgress')]_vars

C19_Witness ==
    /\ choice = "y"
    /\ CheckpointParagraphs(startProgress) = SAVE_INTERVAL
    /\ saves >= 1
    /\ progFile.exists
    /\ CheckpointParagraphs(progFile.data) >= SAVE_INTERVAL

(***************************************************************************)
(* C20: in the final document of a run the paragraph output blocks are in  *)
(* source order and no source paragraph has more than one output block.    *)
(***************************************************************************)
C20_OutputInSourceOrder ==
    finalSaved =>
        LET out == ParaBlocks(outFile.body)
        IN  \A a, b \in 1..Len(out) : a < b => out[a].src < out[b].src

C20_Witness ==
    /\ finalSaved
    /\ nParas > 1
    /\ choice # "y"
    /\ Len(ParaBlocks(outFile.body)) = nParas

(***************************************************************************)
(* C21: a run whose input document is missing or cannot be loaded ends     *)
(* with a non-zero exit status.                                            *)
(***************************************************************************)
C21_BadInputExitsNonZero ==
    (pc = "exited" /\ inputState # "ok") => exitCode # 0

(***************************************************************************)
(* C22: at a save interval the working document is flushed before the      *)
(* checkpoint file is written: when the checkpoint write is about to       *)
(* happen the working file holds the whole working document, and right     *)
(* after an interval whose flush or checkpoint write raised, the           *)
(* checkpoint file is what it was before.                                  *)
(***************************************************************************)
C22_FlushBeforeCheckpoint ==
    /\ (pc \in {"tables", "paras"} /\ sub = "checkpoint") => tempFile = DocFile(tempDoc)
    /\ (/\ persistFail # NoFail
        /\ sub = "body"
        /\ \/ pc = "paras" /\ persistFail.unit = <<"para", paraIdx - 1>>
           \/ pc = "tables" /\ persistFail.unit = <<"table", tblIdx - 1>>)
       => progFile = persistFail.ckpt

C22_Witness ==
    /\ pc = "paras" /\ sub = "body"
    /\ persistFail.unit = <<"para", SAVE_INTERVAL>>
    /\ paraIdx = SAVE_INTERVAL + 1
    /\ run = 1
    /\ choice = "none"
    /\ ~tempFile.exists
    /\ ~progFile.exists

(***************************************************************************)
(* C23: the stages of a run come in the order Loading, CheckpointResolved, *)
(* TableProcessing, ParagraphProcessing, FinalSave, Done: a run whose      *)
(* input is missing never asks about or discards the checkpoint, no        *)
(* paragraph is translated before the table loop has passed every table,   *)
(* and the final artifact is written only after the paragraph loop has     *)
(* passed every paragraph.                                                 *)
(***************************************************************************)
C23_StagesInOrder ==
    /\ (pc = "exited" /\ inputState = "missing") => (choice = "none" /\ ckRemoved = "no")
    /\ ParaCalls # {} => tblIdx > nTables
    /\ finalSaved => paraIdx > nParas

(***************************************************************************)
(* C24: in the working document a paragraph's output block is followed     *)
(* immediately by a page break exactly when the paragraph's index (the     *)
(* number of paragraphs the loop has gone through) is a multiple of        *)
(* PAGE_BREAK_INTERVAL or its style is heading-like.                       *)
(***************************************************************************)
FollowedByBreak(blocks, n) == n < Len(blocks) /\ blocks[n + 1].kind = "pagebreak"

C24_BreakAfterEveryThirdOrHeading ==
    \A n \in 1..Len(tempDoc) :
        LET block == tempDoc[n]
        IN  (block.kind = "para" /\ block.trans # "none") =>
                (FollowedByBreak(tempDoc, n)
                    <=> (block.src % PAGE_BREAK_INTERVAL = 0 \/ IsHeading(block.src)))

C24_Witness ==
    /\ \E n \in 1..Len(tempDoc) :
        tempDoc[n].kind = "para" /\ tempDoc[n].src = PAGE_BREAK_INTERVAL
            /\ FollowedByBreak(tempDoc, n)
    /\ \E n \in 1..Len(tempDoc) :
        /\ tempDoc[n].kind = "para" /\ IsHeading(tempDoc[n].src)
        /\ tempDoc[n].src % PAGE_BREAK_INTERVAL # 0
        /\ FollowedByBreak(tempDoc, n)
    /\ \E n \in 1..Len(tempDoc) :
        /\ tempDoc[n].kind = "para" /\ tempDoc[n].src = 5
        /\ n < Len(tempDoc) /\ tempDoc[n + 1].kind = "para"

(***************************************************************************)
(* C26: the checkpoint file holds the paragraph count and the table count  *)
(* the loops recorded at the last checkpoint write, so that the next run   *)
(* reads exactly those; without a file a run starts from counts 0 and 0.   *)
(***************************************************************************)
C26_CheckpointRoundTrip ==
    /\ (saves >= 1 /\ progFile.exists /\ persistFail = NoFail /\ pc = "paras") =>
        /\ CheckpointParagraphs(progFile.data) = CheckpointParagraphs(progress)
        /\ CheckpointTables(variant, progFile.data) = CheckpointTables(variant, progress)
    /\ (choice = "none" /\ pc \in {"load", "tables", "paras"}) =>
        /\ CheckpointParagraphs(startProgress) = 0
        /\ CheckpointTables(variant, startProgress) = 0

(***************************************************************************)
(* C27: the final artifact of a fresh run holds the translated text of     *)
(* every unit that was processed without error: a block for every table    *)
(* whose cells were translated and for every paragraph that was            *)
(* translated.                                                             *)
(***************************************************************************)
C27_FinalHoldsEveryTranslation ==
    (finalSaved /\ choice # "y") =>
        /\ \A i \in ParaCalls : HasOutput(outFile.body, i)
        /\ \A j \in TableCalls :
            docTables[j] = "ok" =>
                \E n \in 1..Len(outFile.body) :
                    outFile.body[n].kind = "table" /\ outFile.body[n].src = j

(***************************************************************************)
(* split_docx.py: split_docx.  The paragraphs of the input are copied into *)
(* current_segment_doc; the segment is saved and a new one started when    *)
(* global_page has reached segment_start_page + segment_page_count.  Both  *)
(* current_segment_doc.add_paragraph and current_segment_doc.save sit in   *)
(* try/except Exception.                                                   *)
(***************************************************************************)
SplitKinds == {<<0>>, <<1>>, <<1, 1>>}

SplitDocs == UNION {[1..m -> SplitKinds] : m \in 0..MaxSplitParas}

SegmentPageCounts == (1..MaxSegmentPages) \cup {PAGES_PER_SEGMENT}

SplitFaults(doc) ==
    {NoSplitFault} \cup {[kind |-> k, at |-> n] : k \in {"add", "save"}, n \in 1..Len(doc)}

InitSplit ==
    /\ sdoc \in SplitDocs
    /\ sN \in SegmentPageCounts
    /\ sfault \in SplitFaults(sdoc)
    /\ spc = "loop"
    /\ spara = 1
    /\ sglobal = 1
    /\ sstart = 1
    /\ ssegidx = 1
    /\ scur = <<>>
    /\ ssaved = <<>>
    /\ MainParked
    /\ BatchParked
    /\ PureParked
    /\ MergeParked

add_paragraph_raises(i) == sfault = [kind |-> "add", at |-> i]

segment_save_raises(k) == sfault = [kind |-> "save", at |-> k]

segment_full(global_page, segment_start_page, segment_page_count) ==
    global_page >= segment_start_page + segment_page_count

save_segment(saved, k, paragraphs) ==
    IF segment_save_raises(k) THEN saved
    ELSE Append(saved, [index |-> k, paras |-> paragraphs])

(***************************************************************************)
(* One iteration of the for loop over enumerate(doc.paragraphs).           *)
(***************************************************************************)
split_paragraph ==
    /\ spc = "loop"
    /\ spara <= Len(sdoc)
    /\ IF add_paragraph_raises(spara)
       THEN UNCHANGED <<sglobal, sstart, ssegidx, scur, ssaved>>
       ELSE LET added == Append(scur, spara)
                page == sglobal + count_page_breaks(sdoc[spara])
            IN  /\ sglobal' = page
                /\ IF segment_full(page, sstart, sN)
                   THEN /\ ssaved' = save_segment(ssaved, ssegidx, added)
                        /\ ssegidx' = ssegidx + 1
                        /\ sstart' = page
                        /\ scur' = <<>>
                   ELSE /\ scur' = added
                        /\ UNCHANGED <<ssaved, ssegidx, sstart>>
    /\ spara' = spara + 1
    /\ UNCHANGED <<sdoc, sN, sfault, spc>>
    /\ UNCHANGED <<mainVars, batchVars, pureVars, mergeVars>>

(***************************************************************************)
(* After the loop: the remaining paragraphs are saved as the last segment. *)
(***************************************************************************)
split_final ==
    /\ spc = "loop"
    /\ spara > Len(sdoc)
    /\ ssaved' = IF Len(scur) > 0 THEN save_segment(ssaved, ssegidx, scur) ELSE ssaved
    /\ spc' = "done"
    /\ UNCHANGED <<sdoc, sN, sfault, spara, sglobal, sstart, ssegidx, scur>>
    /\ UNCHANGED <<mainVars, batchVars, pureVars, mergeVars>>

NextSplit ==
    \/ split_paragraph
    \/ split_final

SpecSplit == InitSplit /\ [][NextSplit]_vars

(***************************************************************************)
(* What the splitter claims read off a state.                              *)
(***************************************************************************)
RECURSIVE ConcatSegments(_)
ConcatSegments(saved) ==
    IF saved = <<>> THEN <<>> ELSE Head(saved).paras \o ConcatSegments(Tail(saved))

RECURSIVE PageOfParagraph(_, _)
PageOfParagraph(doc, i) ==
    IF i = 1 THEN 1 ELSE PageOfParagraph(doc, i - 1) + count_page_breaks(doc[i - 1])

PagesCovered(doc, paragraphs) ==
    {PageOfParagraph(doc, paragraphs[n]) : n \in 1..Len(paragraphs)}

GroupedParagraphs(doc) ==
    LET segments == group_into_segments(assign_page_numbers(doc).paged)
    IN  [n \in 1..Len(segments) |->
            [k \in 1..Len(segments[n].items) |-> segments[n].items[k][2]]]

(***************************************************************************)
(* C25: the segment files of split_docx each cover at most                 *)
(* segment_page_count pages, and concatenated in segment order they hold   *)
(* every source paragraph exactly once in source order, also when adding a *)
(* paragraph or saving a segment fails.                                    *)
(***************************************************************************)
C25_SegmentsPartitionSource ==
    spc = "done" =>
        /\ \A n \in 1..Len(ssaved) :
            Cardinality(PagesCovered(sdoc, ssaved[n].paras)) <= sN
        /\ ConcatSegments(ssaved) = [i \in 1..Len(sdoc) |-> i]

(***************************************************************************)
(* C28: with segment_page_count = PAGES_PER_SEGMENT and no failure,        *)
(* split_docx writes the segments of group_into_segments applied to        *)
(* assign_page_numbers: the same paragraphs in each, in the same order.    *)
(***************************************************************************)
C28_SegmentersAgree ==
    (spc = "done" /\ sN = PAGES_PER_SEGMENT /\ sfault = NoSplitFault) =>
        [n \in 1..Len(ssaved) |-> ssaved[n].paras] = GroupedParagraphs(sdoc)

(***************************************************************************)
(* One run of the script that nothing kills: main() is a sequential        *)
(* program, so as long as a step of it is possible one is taken.           *)
(***************************************************************************)
NextRun ==
    \/ main_resolve_checkpoint
    \/ main_check_input
    \/ main_load
    \/ process_tables_skip
    \/ process_tables_body
    \/ process_tables_flush
    \/ process_tables_checkpoint
    \/ main_enter_paragraphs
    \/ process_paragraphs_skip
    \/ process_paragraphs_body
    \/ process_paragraphs_flush
    \/ process_paragraphs_checkpoint
    \/ main_final_save
    \/ main_finally

SpecRun == Init /\ [][NextRun]_vars /\ WF_vars(NextRun)

ErrorBlocks(blocks) == {n \in 1..Len(blocks) : blocks[n].trans = "error"}

ErrorTables == {j \in DOMAIN docTables : docTables[j] = "error"}

OnlyTranslationFailures ==
    Cardinality(ErrorBlocks(tempDoc)) + Cardinality(ErrorTables) = MaxFaults - faultsLeft

(***************************************************************************)
(* C29: a run that is not killed terminates, whatever translation calls    *)
(* fail: no gateway invocation makes more than STOP_AFTER_ATTEMPT calls,   *)
(* the loops never step back to a table or paragraph nor call the gateway  *)
(* for one already called, no paragraph gets a second output block, the    *)
(* process ends, and when the input could be loaded and nothing but        *)
(* translation calls failed it has written the final artifact by then.     *)
(***************************************************************************)
C29_RunTerminates ==
    /\ <>(pc \in {"exited", "crashed"})
    /\ [](lastGw.calls <= STOP_AFTER_ATTEMPT)
    /\ [][/\ tblIdx' >= tblIdx
          /\ paraIdx' >= paraIdx
          /\ (lastGw' # lastGw) => (lastGw'.unit \notin calls)]_vars
    /\ [](\A a, b \in 1..Len(tempDoc) :
            (a < b /\ tempDoc[a].kind = "para" /\ tempDoc[b].kind = "para")
                => tempDoc[a].src < tempDoc[b].src)
    /\ []((pc = "exited" /\ inputState = "ok" /\ OnlyTranslationFailures) => finalSaved)

C29_Witness ==
    /\ pc = "exited"
    /\ exitCode = 0
    /\ finalSaved
    /\ nParas = MaxParas /\ nTables = MaxTables
    /\ ErrorBlocks(outFile.body) # {}
    /\ OnlyTranslationFailures

====
